---------------------------- MODULE Spec2Model ----------------------------
(***************************************************************************)
(* CartManager of assets/js/app-optimized.js: the multi-order cart, its    *)
(* order templates and the localStorage keys it writes through to.         *)
(*                                                                         *)
(* JavaScript objects are references.  Item objects live in `heap`; an     *)
(* order or a template holds a sequence of references, so the spread       *)
(* copies of the source ([...this.cart], [...template.items]) copy the     *)
(* sequence and share the item objects, as they do in the source.  Strings *)
(* that pass through sanitizeInput or trim are sequences of characters.    *)
(* Every handler is an operator from a manager state (a record) to the     *)
(* manager state it leaves; the field `ret` of the result is the value the *)
(* call returns ("true", "false", "undefined" or an id), the field `heard`  *)
(* what each registered callback was called with during the call, and the  *)
(* field `notes` the types of the notifications the call showed.  The      *)
(* actions apply the operators to the variables.                           *)
(***************************************************************************)
EXTENDS Integers, Sequences, FiniteSets, TLC

VARIABLES heap,            \* item objects: reference -> [name, price, quantity]
          orders,          \* this.orders: order id -> sequence of references
          activeOrderId,   \* this.activeOrderId
          orderTemplates,  \* this.orderTemplates: sequence of template records
          store,           \* localStorage: the three rex-* keys
          listeners,       \* this.listeners: how many callbacks it holds
          ui,              \* the page: submit controls, pending timers, modals
          constructed,     \* whether new CartManager() has run
          scope,           \* the sizes this behaviour stays within
          debounced        \* a function debounce() returned, and its timers

vars ==
  <<heap, orders, activeOrderId, orderTemplates, store, listeners, ui,
    constructed, scope, debounced>>

---------------------------------------------------------------------------
(* Bounds of the model *)

MaxObjs == 2        \* item objects alive at once
MaxRows == 2        \* rows the actions put in one item sequence
MaxQty == 2         \* largest quantity the actions produce
MaxGen == 2         \* generated ids available per prefix
MaxTemplates == 2   \* templates the actions keep at once
MaxOrders == 3      \* orders the actions keep at once
MaxNameLen == 8     \* longest template name the actions produce
MaxListeners == 1   \* callbacks registered with onChange
MaxInFlight == 2    \* submissions of one form awaiting their timer

---------------------------------------------------------------------------
(* Strings as character sequences, and the two string conversions *)

EscapeChar(c) ==
  IF c = "&" THEN <<"&", "a", "m", "p", ";">>
  ELSE IF c = "<" THEN <<"&", "l", "t", ";">>
  ELSE IF c = ">" THEN <<"&", "g", "t", ";">>
  ELSE <<c>>

RECURSIVE sanitizeInput(_)
sanitizeInput(input) ==
  IF input = <<>> THEN <<>>
  ELSE EscapeChar(Head(input)) \o sanitizeInput(Tail(input))

RECURSIVE trimStart(_)
trimStart(str) ==
  IF str # <<>> /\ Head(str) = " " THEN trimStart(Tail(str)) ELSE str

RECURSIVE trimEnd(_)
trimEnd(str) ==
  IF str # <<>> /\ str[Len(str)] = " "
  THEN trimEnd(SubSeq(str, 1, Len(str) - 1)) ELSE str

trim(str) == trimEnd(trimStart(str))

---------------------------------------------------------------------------
(* Finite maps with a changing key set (JavaScript objects used as maps) *)

Put(f, k, v) == [x \in DOMAIN f \cup {k} |-> IF x = k THEN v ELSE f[x]]

Del(f, k) == [x \in DOMAIN f \ {k} |-> f[x]]

Range(seq) == {seq[i] : i \in 1..Len(seq)}

RemoveAt(seq, i) == SubSeq(seq, 1, i - 1) \o SubSeq(seq, i + 1, Len(seq))

RECURSIVE SumSeq(_)
SumSeq(seq) == IF seq = <<>> THEN 0 ELSE Head(seq) + SumSeq(Tail(seq))

---------------------------------------------------------------------------
(* The manager state as one record, and views of it *)

St == [heap |-> heap, orders |-> orders, activeOrderId |-> activeOrderId,
       orderTemplates |-> orderTemplates, store |-> store,
       listeners |-> listeners, ret |-> "undefined", heard |-> <<>>,
       notes |-> <<>>]

\* The item values behind a sequence of references.
Items(h, refs) == [i \in 1..Len(refs) |-> h[refs[i]]]

\* What this.orders[id] reads for a name inherited from Object.prototype: a
\* function (for "constructor", Object itself).  It is written as the
\* reference sequence <<0>>, which is no item array: references are positive.
InheritedValue == <<0>>

\* this.orders[id] of an id that passed the truthiness test
OrderValue(s, id) ==
  IF id \in DOMAIN s.orders THEN s.orders[id] ELSE InheritedValue

\* JSON.stringify(this.orders): a property whose value is a function is
\* left out.
StringifyOrders(s) ==
  [id \in {x \in DOMAIN s.orders : s.orders[x] # InheritedValue} |->
     Items(s.heap, s.orders[id])]

\* JSON.stringify(this.orderTemplates)
StringifyTemplates(s) ==
  [i \in 1..Len(s.orderTemplates) |->
     [id |-> s.orderTemplates[i].id,
      name |-> s.orderTemplates[i].name,
      items |-> Items(s.heap, s.orderTemplates[i].items),
      total |-> s.orderTemplates[i].total,
      itemCount |-> s.orderTemplates[i].itemCount]]

Absent == [kind |-> "absent"]
Unparseable == [kind |-> "unparseable"]
Stored(v) == [kind |-> "value", v |-> v]

\* get cart(): this.orders[this.activeOrderId] || []
cart(s) ==
  IF s.activeOrderId \in DOMAIN s.orders THEN s.orders[s.activeOrderId]
  ELSE <<>>

\* this.listeners.forEach(callback => callback(this.cart)): every
\* registered callback is called with the items of the active order.
notifyListeners(s) ==
  IF s.listeners = 0 THEN s
  ELSE [s EXCEPT !.heard = Append(@, Items(s.heap, cart(s)))]

\* showNotification(message, type)
showNotification(s, type) == [s EXCEPT !.notes = Append(@, type)]

saveOrders(s) ==
  notifyListeners([s EXCEPT !.store.orders = Stored(StringifyOrders(s))])

saveActiveOrderId(s) == [s EXCEPT !.store.active = Stored(s.activeOrderId)]

saveOrderTemplates(s) ==
  notifyListeners([s EXCEPT !.store.templates = Stored(StringifyTemplates(s))])

\* set cart(items)
setCart(s, items) ==
  saveOrders([s EXCEPT !.orders = Put(s.orders, s.activeOrderId, items)])

\* getTotal adding up the prices of the rows, whatever their quantities
getTotalOfRows(s) ==
  SumSeq([i \in 1..Len(cart(s)) |-> s.heap[cart(s)[i]].price])

getTotal(s) ==
  SumSeq([i \in 1..Len(cart(s)) |->
            s.heap[cart(s)[i]].price * s.heap[cart(s)[i]].quantity])

getItemCount(s) ==
  SumSeq([i \in 1..Len(cart(s)) |-> s.heap[cart(s)[i]].quantity])

getAllOrderIds(s) == DOMAIN s.orders

\* The references some order or template holds; every other object is garbage.
Live(s) ==
  UNION {Range(s.orders[id]) : id \in DOMAIN s.orders}
  \cup UNION {Range(s.orderTemplates[i].items) : i \in 1..Len(s.orderTemplates)}

\* The references n new objects get: the lowest ones not alive.
RECURSIVE LowestFree(_, _, _)
LowestFree(used, from, n) ==
  IF n = 0 THEN <<>>
  ELSE IF from \in used THEN LowestFree(used, from + 1, n)
  ELSE <<from>> \o LowestFree(used, from + 1, n - 1)

NewRefs(s, n) == LowestFree(Live(s), 1, n)

NewRef(s) == NewRefs(s, 1)[1]

\* Garbage collection: objects nothing refers to are gone.
Collect(s) == [s EXCEPT !.heap = [r \in Live(s) |-> s.heap[r]]]

---------------------------------------------------------------------------
(* Cart operations on the active order *)

\* An item descriptor is a record that may lack any of name, price, quantity.
HasField(item, f) == f \in DOMAIN item

\* !item.name: a missing or empty name is falsy.
NameFalsy(item) == ~HasField(item, "name") \/ item.name = <<>>

\* !item.price: a missing price and the number 0 are falsy.
PriceFalsy(item) == ~HasField(item, "price") \/ item.price = 0

\* parseInt(item.quantity) || 1: NaN (no quantity) and 0 become 1, every
\* other integer, negative ones included, is kept.
QuantityOf(item) ==
  IF ~HasField(item, "quantity") THEN 1
  ELSE IF item.quantity = 0 THEN 1
  ELSE item.quantity

\* Array.prototype.find over the active order: index of the first row with
\* this name and price, 0 when there is none.
FindRow(s, name, price) ==
  LET c == cart(s)
      hits == {i \in 1..Len(c) :
                 s.heap[c[i]].name = name /\ s.heap[c[i]].price = price}
  IN IF hits = {} THEN 0 ELSE CHOOSE i \in hits : \A j \in hits : i <= j

addItem(s, item) ==
  IF NameFalsy(item) \/ PriceFalsy(item) THEN [s EXCEPT !.ret = "false"]
  ELSE
    LET sanitizedItem == [name |-> sanitizeInput(item.name),
                          price |-> item.price,
                          quantity |-> QuantityOf(item)]
        existingItem == FindRow(s, sanitizedItem.name, sanitizedItem.price)
        r == NewRef(s)
        merged == [s EXCEPT !.heap[cart(s)[existingItem]].quantity =
                                @ + sanitizedItem.quantity]
        \* this.cart.push(...): onto the order's array, or onto the
        \* throw-away [] the getter returns when the active id has no order.
        pushed ==
          IF s.activeOrderId \in DOMAIN s.orders
          THEN [s EXCEPT !.heap = Put(s.heap, r, sanitizedItem),
                         !.orders[s.activeOrderId] = Append(@, r)]
          ELSE s
        t == IF existingItem # 0 THEN merged ELSE pushed
    IN [showNotification(saveOrders(t), "success") EXCEPT !.ret = "true"]

removeItem(s, index) ==
  IF index >= 0 /\ index < Len(cart(s))
  THEN [showNotification(
          saveOrders([s EXCEPT !.orders[s.activeOrderId] =
                                  RemoveAt(@, index + 1)]), "info")
          EXCEPT !.ret = "undefined"]
  ELSE [s EXCEPT !.ret = "undefined"]

\* parseInt(quantity): the callers pass numbers (a row's quantity plus or
\* minus one), on which parseInt is the number itself.
\* updateQuantityKeepingZero is updateQuantity keeping a row whose new
\* quantity is zero.
updateQuantityKeepingZero(s, index, quantity) ==
  IF index >= 0 /\ index < Len(cart(s))
  THEN LET newQuantity == quantity
           t == IF newQuantity >= 0
                THEN [s EXCEPT !.heap[cart(s)[index + 1]].quantity = newQuantity]
                ELSE [s EXCEPT !.orders[s.activeOrderId] =
                                  RemoveAt(@, index + 1)]
       IN [saveOrders(t) EXCEPT !.ret = "undefined"]
  ELSE [s EXCEPT !.ret = "undefined"]

updateQuantity(s, index, quantity) ==
  IF index >= 0 /\ index < Len(cart(s))
  THEN LET newQuantity == quantity
           t == IF newQuantity > 0
                THEN [s EXCEPT !.heap[cart(s)[index + 1]].quantity = newQuantity]
                ELSE [s EXCEPT !.orders[s.activeOrderId] =
                                  RemoveAt(@, index + 1)]
       IN [saveOrders(t) EXCEPT !.ret = "undefined"]
  ELSE [s EXCEPT !.ret = "undefined"]

clearCart(s) ==
  [showNotification(saveOrders(setCart(s, <<>>)), "info")
     EXCEPT !.ret = "undefined"]

---------------------------------------------------------------------------
(* Multiple orders *)

\* Names every JavaScript object inherits from Object.prototype; the model
\* carries one of them.  this.orders is a plain object ({} or the result of
\* JSON.parse), so this.orders["constructor"] is a function although
\* "constructor" is no key of it.
InheritedKeys == {"constructor"}

\* this.orders[orderId] is truthy: orderId is a key (the value of a key is
\* an array, and arrays are truthy even when empty) or an inherited name
\* (functions are truthy).  Object.keys, and so getAllOrderIds, lists the
\* keys only.
HasOrder(s, orderId) ==
  orderId \in DOMAIN s.orders \/ orderId \in InheritedKeys

\* generateOrderId(prefix): prefix, time stamp and random suffix: an id of
\* that prefix nothing in the manager bears.  Which fresh id it is makes no
\* difference to any handler, and the model takes the first free one.
GenId(prefix, n) == prefix \o "-" \o ToString(n)

IdsInUse(s) ==
  DOMAIN s.orders \cup {s.activeOrderId}
  \cup {s.orderTemplates[i].id : i \in 1..Len(s.orderTemplates)}

generateOrderId(s, prefix) ==
  LET free == {n \in 1..MaxGen : GenId(prefix, n) \notin IdsInUse(s)}
  IN IF free = {} THEN {}
     ELSE {GenId(prefix, CHOOSE n \in free : \A m \in free : n <= m)}

switchToOrder(s, orderId) ==
  IF HasOrder(s, orderId)
  THEN [showNotification(
          saveActiveOrderId([s EXCEPT !.activeOrderId = orderId]), "info")
          EXCEPT !.ret = "undefined"]
  ELSE [showNotification(s, "error") EXCEPT !.ret = "undefined"]

\* name is "" for createOrder() and createOrder(null); gen is the id
\* generateOrderId() would return.
createOrder(s, name, gen) ==
  LET orderId == IF name # "" THEN name ELSE gen
  IN IF ~HasOrder(s, orderId)
     THEN [showNotification(
             switchToOrder(
               saveOrders([s EXCEPT !.orders = Put(@, orderId, <<>>)]),
               orderId), "success")
             EXCEPT !.ret = orderId]
     ELSE [s EXCEPT !.ret = orderId]

\* duplicateCurrentOrderEmpty is duplicateCurrentOrder making the new order
\* empty.
duplicateCurrentOrderEmpty(s, newOrderId) ==
  [showNotification(
     saveOrders([s EXCEPT !.orders = Put(@, newOrderId, <<>>)]),
     "success")
     EXCEPT !.ret = newOrderId]

\* newOrderId is the id generateOrderId('copy') returns.
duplicateCurrentOrder(s, newOrderId) ==
  LET currentItems == cart(s)
  IN [showNotification(
        saveOrders([s EXCEPT !.orders = Put(@, newOrderId, currentItems)]),
        "success")
        EXCEPT !.ret = newOrderId]

\* deleteOrder without its refusal of "default"
deleteOrderUnguarded(s, orderId) ==
  IF HasOrder(s, orderId)
  THEN LET t == saveOrders([s EXCEPT !.orders = Del(@, orderId)])
           u == IF t.activeOrderId = orderId
                THEN switchToOrder(t, "default") ELSE t
       IN [showNotification(u, "info") EXCEPT !.ret = "true"]
  ELSE [s EXCEPT !.ret = "false"]

deleteOrder(s, orderId) ==
  IF orderId = "default"
  THEN [showNotification(s, "error") EXCEPT !.ret = "false"]
  ELSE IF HasOrder(s, orderId)
  THEN LET t == saveOrders([s EXCEPT !.orders = Del(@, orderId)])
           u == IF t.activeOrderId = orderId
                THEN switchToOrder(t, "default") ELSE t
       IN [showNotification(u, "info") EXCEPT !.ret = "true"]
  ELSE [s EXCEPT !.ret = "false"]

\* renameOrder without its test that the new id is free
renameOrderOverwriting(s, oldOrderId, newOrderId) ==
  IF HasOrder(s, oldOrderId)
  THEN LET t == saveOrders([s EXCEPT !.orders =
                              Del(Put(@, newOrderId, OrderValue(s, oldOrderId)),
                                  oldOrderId)])
           u == IF t.activeOrderId = oldOrderId
                THEN saveActiveOrderId([t EXCEPT !.activeOrderId = newOrderId])
                ELSE t
       IN [showNotification(u, "success") EXCEPT !.ret = "true"]
  ELSE [s EXCEPT !.ret = "false"]

renameOrder(s, oldOrderId, newOrderId) ==
  IF HasOrder(s, oldOrderId) /\ ~HasOrder(s, newOrderId)
  THEN LET t == saveOrders([s EXCEPT !.orders =
                              Del(Put(@, newOrderId, OrderValue(s, oldOrderId)),
                                  oldOrderId)])
           u == IF t.activeOrderId = oldOrderId
                THEN saveActiveOrderId([t EXCEPT !.activeOrderId = newOrderId])
                ELSE t
       IN [showNotification(u, "success") EXCEPT !.ret = "true"]
  ELSE [s EXCEPT !.ret = "false"]

---------------------------------------------------------------------------
(* Order templates *)

\* Array.prototype.find / findIndex over the templates by id: index of the
\* first template with this id, 0 when there is none.
FindTemplate(s, templateId) ==
  LET hits == {i \in 1..Len(s.orderTemplates) :
                 s.orderTemplates[i].id = templateId}
  IN IF hits = {} THEN 0 ELSE CHOOSE i \in hits : \A j \in hits : i <= j

TemplateNames(s) ==
  {s.orderTemplates[i].name : i \in 1..Len(s.orderTemplates)}

\* sum of price * quantity, and of quantity, over a sequence of item values
TotalOf(items) ==
  SumSeq([i \in 1..Len(items) |-> items[i].price * items[i].quantity])

CountOf(items) == SumSeq([i \in 1..Len(items) |-> items[i].quantity])

\* getOrderSummary(orderId = null): the order asked for, or the active one;
\* `this.orders[targetOrderId] || []` is empty for an id without an order.
\* items is a new array ([...items]) holding the order's own item objects.
getOrderSummary(s, orderId) ==
  LET targetOrderId == IF orderId = "" THEN s.activeOrderId ELSE orderId
      items == IF targetOrderId \in DOMAIN s.orders
               THEN s.orders[targetOrderId] ELSE <<>>
  IN [orderId |-> targetOrderId,
      itemCount |-> CountOf(Items(s.heap, items)),
      total |-> TotalOf(Items(s.heap, items)),
      items |-> items]

\* saveAsTemplate without its search for a template of the name
saveAsTemplateUnchecked(s, templateName, gen) ==
  IF templateName = <<>> \/ trim(templateName) = <<>>
  THEN [showNotification(s, "error") EXCEPT !.ret = "false"]
  ELSE
    LET template == [id |-> gen,
                     name |-> sanitizeInput(trim(templateName)),
                     items |-> cart(s),
                     total |-> getTotal(s),
                     itemCount |-> getItemCount(s)]
    IN [showNotification(
          saveOrderTemplates(
            [s EXCEPT !.orderTemplates = Append(@, template)]),
          "success")
          EXCEPT !.ret = template.id]

\* gen is the id generateOrderId('template') returns.
saveAsTemplate(s, templateName, gen) ==
  IF templateName = <<>> \/ trim(templateName) = <<>>
  THEN [showNotification(s, "error") EXCEPT !.ret = "false"]
  ELSE
    LET sanitizedName == sanitizeInput(trim(templateName))
        template == [id |-> gen,
                     name |-> sanitizedName,
                     items |-> cart(s),
                     total |-> getTotal(s),
                     itemCount |-> getItemCount(s)]
    IN IF sanitizedName \in TemplateNames(s)
       THEN [showNotification(s, "error") EXCEPT !.ret = "false"]
       ELSE [showNotification(
               saveOrderTemplates(
                 [s EXCEPT !.orderTemplates = Append(@, template)]),
               "success")
               EXCEPT !.ret = template.id]

\* targetOrderId is "" for loadTemplate(id) and loadTemplate(id, null).
\* loadTemplate taking "default", not the active order, when it is given no
\* target
loadTemplateIntoDefault(s, templateId, targetOrderId) ==
  LET template == FindTemplate(s, templateId)
      orderId == IF targetOrderId # "" THEN targetOrderId ELSE "default"
  IN IF template = 0
     THEN [showNotification(s, "error") EXCEPT !.ret = "false"]
     ELSE [showNotification(
             saveOrders([s EXCEPT !.orders =
                           Put(@, orderId, s.orderTemplates[template].items)]),
             "success")
             EXCEPT !.ret = "true"]

\* loadTemplateAppending is loadTemplate adding the template's items to
\* what the order holds.
loadTemplateAppending(s, templateId, targetOrderId) ==
  LET template == FindTemplate(s, templateId)
      orderId == IF targetOrderId # "" THEN targetOrderId ELSE s.activeOrderId
      held == IF orderId \in DOMAIN s.orders THEN s.orders[orderId] ELSE <<>>
  IN IF template = 0
     THEN [showNotification(s, "error") EXCEPT !.ret = "false"]
     ELSE [showNotification(
             saveOrders([s EXCEPT !.orders =
                           Put(@, orderId,
                               held \o s.orderTemplates[template].items)]),
             "success")
             EXCEPT !.ret = "true"]

loadTemplate(s, templateId, targetOrderId) ==
  LET template == FindTemplate(s, templateId)
      orderId == IF targetOrderId # "" THEN targetOrderId ELSE s.activeOrderId
  IN IF template = 0
     THEN [showNotification(s, "error") EXCEPT !.ret = "false"]
     ELSE [showNotification(
             saveOrders([s EXCEPT !.orders =
                           Put(@, orderId, s.orderTemplates[template].items)]),
             "success")
             EXCEPT !.ret = "true"]

deleteTemplate(s, templateId) ==
  LET index == FindTemplate(s, templateId)
  IN IF index # 0
     THEN [showNotification(
             saveOrderTemplates(
               [s EXCEPT !.orderTemplates = RemoveAt(@, index)]), "info")
             EXCEPT !.ret = "true"]
     ELSE [s EXCEPT !.ret = "false"]

\* The heap h with the objects of values vals at the references refs.
WithObjects(h, refs, vals) ==
  [r \in DOMAIN h \cup Range(refs) |->
     IF r \in Range(refs)
     THEN vals[CHOOSE i \in 1..Len(refs) : refs[i] = r]
     ELSE h[r]]

\* updateTemplateKeepingTotals is updateTemplate leaving total and itemCount
\* as they were when it replaces the items.
updateTemplateKeepingTotals(s, templateId, newName, newItems) ==
  LET template == FindTemplate(s, templateId)
      refs == NewRefs(s, Len(newItems.items))
      named == IF newName # <<>>
               THEN [s EXCEPT !.orderTemplates[template].name =
                                 sanitizeInput(trim(newName))]
               ELSE s
      filled ==
        IF newItems.given
        THEN [named EXCEPT
                !.heap = WithObjects(s.heap, refs, newItems.items),
                !.orderTemplates[template].items = refs]
        ELSE named
  IN IF template = 0 THEN [s EXCEPT !.ret = "false"]
     ELSE [showNotification(saveOrderTemplates(filled), "success")
             EXCEPT !.ret = "true"]

\* newName is <<>> for a null or empty name.  newItems is [given |-> FALSE]
\* for null, and else carries the values of the item objects of the array
\* the caller passes, objects no order or template of the manager holds.
updateTemplate(s, templateId, newName, newItems) ==
  LET template == FindTemplate(s, templateId)
      refs == NewRefs(s, Len(newItems.items))
      named == IF newName # <<>>
               THEN [s EXCEPT !.orderTemplates[template].name =
                                 sanitizeInput(trim(newName))]
               ELSE s
      filled ==
        IF newItems.given
        THEN [named EXCEPT
                !.heap = WithObjects(s.heap, refs, newItems.items),
                !.orderTemplates[template].items = refs,
                !.orderTemplates[template].total = TotalOf(newItems.items),
                !.orderTemplates[template].itemCount = CountOf(newItems.items)]
        ELSE named
  IN IF template = 0 THEN [s EXCEPT !.ret = "false"]
     ELSE [showNotification(saveOrderTemplates(filled), "success")
             EXCEPT !.ret = "true"]

CopySuffix == <<" ", "(", "C", "o", "p", "y", ")">>

\* newName is <<>> for a null or empty name; gen is the id
\* generateOrderId('template') returns.  The spread {...template} shares the
\* items array, which nothing changes in place.
duplicateTemplate(s, templateId, newName, gen) ==
  LET template == FindTemplate(s, templateId)
      newTemplate ==
        [s.orderTemplates[template] EXCEPT
           !.id = gen,
           !.name = IF newName # <<>> THEN newName
                    ELSE s.orderTemplates[template].name \o CopySuffix]
  IN IF template = 0 THEN [s EXCEPT !.ret = "false"]
     ELSE [showNotification(
             saveOrderTemplates(
               [s EXCEPT !.orderTemplates = Append(@, newTemplate)]),
             "success")
             EXCEPT !.ret = newTemplate.id]

---------------------------------------------------------------------------
(* Construction from the persistent store *)

\* localStorage.getItem('rex-active-order-id') || 'default'
loadActiveOrderId(st) ==
  IF st.active.kind = "value" /\ st.active.v # "" THEN st.active.v
  ELSE "default"

\* JSON.parse builds new objects: every stored row becomes an object of its
\* own.  Parsing the orders of ids `todo` on top of acc = [heap, orders].
RECURSIVE ParseOrders(_, _, _)
ParseOrders(m, todo, acc) ==
  IF todo = {} THEN acc
  ELSE LET id == CHOOSE x \in todo : TRUE
           refs == LowestFree(DOMAIN acc.heap, 1, Len(m[id]))
       IN ParseOrders(m, todo \ {id},
                      [heap |-> WithObjects(acc.heap, refs, m[id]),
                       orders |-> Put(acc.orders, id, refs)])

\* localStorage.getItem('rex-orders'), parsed; {} when absent or unparseable
loadOrders(st) ==
  IF st.orders.kind = "value"
  THEN ParseOrders(st.orders.v, DOMAIN st.orders.v,
                   [heap |-> <<>>, orders |-> <<>>])
  ELSE [heap |-> <<>>, orders |-> <<>>]

\* Parsing the templates from index i on, on top of acc = [heap, templates].
RECURSIVE ParseTemplates(_, _, _)
ParseTemplates(m, i, acc) ==
  IF i > Len(m) THEN acc
  ELSE LET refs == LowestFree(DOMAIN acc.heap, 1, Len(m[i].items))
       IN ParseTemplates(m, i + 1,
            [heap |-> WithObjects(acc.heap, refs, m[i].items),
             templates |-> Append(acc.templates, [m[i] EXCEPT !.items = refs])])

\* localStorage.getItem('rex-order-templates'), parsed on top of heap h;
\* [] when absent or unparseable
loadOrderTemplates(st, h) ==
  IF st.templates.kind = "value"
  THEN ParseTemplates(st.templates.v, 1, [heap |-> h, templates |-> <<>>])
  ELSE [heap |-> h, templates |-> <<>>]

initializeDefaultOrder(s) ==
  IF ~HasOrder(s, "default")
  THEN saveOrders([s EXCEPT !.orders = Put(@, "default", <<>>)])
  ELSE s

\* new CartManager() over the store st
constructor(st) ==
  LET o == loadOrders(st)
      tp == loadOrderTemplates(st, o.heap)
  IN initializeDefaultOrder(
       [heap |-> tp.heap, orders |-> o.orders,
        activeOrderId |-> loadActiveOrderId(st),
        orderTemplates |-> tp.templates, store |-> st, listeners |-> 0,
        ret |-> "undefined", heard |-> <<>>, notes |-> <<>>])

EmptyStore == [active |-> Absent, orders |-> Absent, templates |-> Absent]

---------------------------------------------------------------------------
(* Inputs of the calls *)

QuantityInputs == {-1, 0, 2}

\* item descriptors: without a quantity, with a negative one, with a name
\* that sanitizeInput changes, with price 0, an empty name, no name, no price
ItemInputs ==
  {[name |-> <<"P">>, price |-> 100],
   [name |-> <<"P">>, price |-> 100, quantity |-> -1],
   [name |-> <<"<">>, price |-> 250, quantity |-> 1],
   [name |-> <<"P">>, price |-> 0, quantity |-> 1],
   [name |-> <<>>, price |-> 100, quantity |-> 1],
   [price |-> 100, quantity |-> 1],
   [name |-> <<"P">>, quantity |-> 1]}

IndexInputs == 0..MaxRows

\* order ids a caller passes; "" stands for null / no argument.  The calls
\* of the state machine pass no inherited name: what the cart getter returns
\* once such a name is the active id is not an item sequence.
OrderIdInputs == {"default", "lunch"}

OrderIds == OrderIdInputs \cup {GenId("order", n) : n \in 1..MaxGen}
            \cup {GenId("copy", n) : n \in 1..MaxGen}

TemplateIds == {GenId("template", n) : n \in 1..MaxGen}

\* template names a caller passes; <<>> stands for null / no argument
TemplateNameInputs == {<<"T">>, <<" ", "T">>, <<" ">>, <<>>}

NewNameInputs == {<<"T">>, <<>>}

NewItemsInputs ==
  {[given |-> FALSE, items |-> <<>>], [given |-> TRUE, items |-> <<>>],
   [given |-> TRUE,
    items |-> <<[name |-> <<"P">>, price |-> 100, quantity |-> 2]>>]}

---------------------------------------------------------------------------
(* The forms of the page: order, login and signup *)

Forms == {"order", "login", "signup"}

\* A submit button: its disabled flag, its content (the label "text", the
\* loading indicator, or nothing), and the submissions of its form that
\* await their timer, each with the originalText it will restore.
IdleControl == [disabled |-> FALSE, label |-> "text", inflight |-> <<>>]

\* element.textContent: the loading indicator is a div without text.
TextContent(element) == IF element.label = "loading" THEN "" ELSE element.label

\* showLoading that leaves the element enabled
showLoadingEnabled(element) == [element EXCEPT !.label = "loading"]

showLoading(element) ==
  [element EXCEPT !.label = "loading", !.disabled = TRUE]

\* hideLoadingDisabled is hideLoading leaving the element disabled.
hideLoadingDisabled(element, originalContent) ==
  [element EXCEPT !.label = originalContent]

hideLoading(element, originalContent) ==
  [element EXCEPT !.label = originalContent, !.disabled = FALSE]

\* A handler past its validation: it reads the button's text, shows the
\* loading state and awaits its timer.
BeginSubmission(element) ==
  [showLoading(element) EXCEPT
     !.inflight = Append(@, [originalText |-> TextContent(element)])]

\* The timer of the oldest awaiting submission fires and the handler runs
\* to its end: finally hideLoading(submitButton, originalText).
EndSubmission(element) ==
  hideLoading([element EXCEPT !.inflight = Tail(@)],
              Head(element.inflight).originalText)

\* The page as loaded: idle forms, no timers, no modal; user says whether
\* rex-user is stored.
LoadedPage(user) ==
  [submit |-> [f \in Forms |-> IdleControl],
   confirming |-> FALSE,    \* a showOrderSuccess timer is pending
   modal |-> <<>>,          \* the total the latest confirmation modal shows
   redirecting |-> {},      \* forms whose redirect timer is pending
   user |-> user]

---------------------------------------------------------------------------
(* debounce *)

\* wait, in ticks of the clock
Wait == 2

\* how many calls one burst has at most
MaxCalls == 3

\* the arguments a call passes
Args == {"a", "b", "c"}

\* debounce(func, wait, immediate): the closure it returns.  timeout is the
\* id of the timer setTimeout returned last, 0 for undefined and null.
\* timers are the pending timers of the page that run `later`, each with
\* the args its `later` closed over and the ticks left until it is due.
\* calls and invoked observe the current burst: the args of its calls, and
\* the args func has been called with.
debounce(immediate) ==
  [immediate |-> immediate, timeout |-> 0, timers |-> {},
   calls |-> <<>>, invoked |-> <<>>]

\* setTimeout returns an id no pending timer has.
TimerId(d) ==
  IF d.timers = {} THEN 1
  ELSE 1 + (CHOOSE i \in {t.id : t \in d.timers} :
              \A t \in d.timers : t.id <= i)

\* executedFunctionKeepingTimer is executedFunction without clearTimeout.
executedFunctionKeepingTimer(d, args) ==
  LET callNow == d.immediate /\ d.timeout = 0
      id == TimerId(d)
  IN [d EXCEPT !.timers = @ \cup {[id |-> id, args |-> args, left |-> Wait]},
               !.timeout = id,
               !.calls = Append(@, args),
               !.invoked = IF callNow THEN Append(@, args) ELSE @]

\* executedFunction(...args): clearTimeout(timeout), then
\* timeout = setTimeout(later, wait), then func(...args) if callNow.
executedFunction(d, args) ==
  LET callNow == d.immediate /\ d.timeout = 0
      cleared == {t \in d.timers : t.id # d.timeout}
      id == TimerId([d EXCEPT !.timers = cleared])
  IN [d EXCEPT !.timers = cleared \cup
                            {[id |-> id, args |-> args, left |-> Wait]},
               !.timeout = id,
               !.calls = Append(@, args),
               !.invoked = IF callNow THEN Append(@, args) ELSE @]

\* later(): the timer t fires; timeout = null, and func(...args) unless
\* immediate.
later(d, t) ==
  [d EXCEPT !.timers = @ \ {t},
            !.timeout = 0,
            !.invoked = IF ~d.immediate THEN Append(@, t.args) ELSE @]

---------------------------------------------------------------------------
(* The state machine *)

\* The model explores the manager within several scopes, each generous in
\* one direction: rows and quantities of one order; orders; templates; one
\* order and a template over several rows; orders and a template; orders
\* and registered callbacks; one order and the order form; one order and
\* the login and signup forms.
Scopes ==
  {[orders |-> 1, templates |-> 0, rows |-> MaxRows, objs |-> MaxObjs,
    low |-> 1 - MaxQty, listeners |-> 0, forms |-> {}],
   [orders |-> MaxOrders, templates |-> 0, rows |-> 1, objs |-> 1, low |-> 1,
    listeners |-> 0, forms |-> {}],
   [orders |-> 1, templates |-> MaxTemplates, rows |-> 1, objs |-> 1,
    low |-> 1, listeners |-> 0, forms |-> {}],
   [orders |-> 1, templates |-> 1, rows |-> MaxRows, objs |-> MaxObjs,
    low |-> 1, listeners |-> 0, forms |-> {}],
   [orders |-> MaxOrders - 1, templates |-> 1, rows |-> 1, objs |-> 1,
    low |-> 1, listeners |-> 0, forms |-> {}],
   [orders |-> MaxOrders - 1, templates |-> 0, rows |-> 1, objs |-> 1,
    low |-> 1, listeners |-> MaxListeners, forms |-> {}],
   [orders |-> 1, templates |-> 0, rows |-> 1, objs |-> 1, low |-> 1,
    listeners |-> 0, forms |-> {"order"}],
   [orders |-> 1, templates |-> 0, rows |-> 1, objs |-> 1, low |-> 1,
    listeners |-> 0, forms |-> {"login", "signup"}]}

\* What the scope of the behaviour admits.
WithinBounds(s) ==
  /\ Cardinality(DOMAIN s.orders) <= scope.orders
  /\ \A id \in DOMAIN s.orders : Len(s.orders[id]) <= scope.rows
  /\ Len(s.orderTemplates) <= scope.templates
  /\ \A i \in 1..Len(s.orderTemplates) :
        /\ Len(s.orderTemplates[i].items) <= scope.rows
        /\ Len(s.orderTemplates[i].name) <= MaxNameLen
  /\ Cardinality(Live(s)) <= scope.objs
  /\ \A r \in Live(s) : s.heap[r].quantity \in scope.low..MaxQty

\* The manager and the store are left as in t.
ManagerIs(t) ==
  /\ heap' = Collect(t).heap
  /\ orders' = t.orders
  /\ activeOrderId' = t.activeOrderId
  /\ orderTemplates' = t.orderTemplates
  /\ store' = t.store

\* A call the user makes leaves the manager as in t, within the scope.  A
\* timer fires whatever the scope: the steps of timers use ManagerIs.
ManagerBecomes(t) ==
  /\ WithinBounds(t)
  /\ ManagerIs(t)

\* A call on the constructed manager returns leaving it in state t.
Returns(t) ==
  /\ ManagerBecomes(t)
  /\ UNCHANGED <<listeners, ui, constructed, scope, debounced>>

\* onChange(callback): this.listeners.push(callback)
OnChange ==
  /\ constructed
  /\ listeners < scope.listeners
  /\ listeners' = listeners + 1
  /\ UNCHANGED <<heap, orders, activeOrderId, orderTemplates, store, ui,
                 constructed, scope, debounced>>

AddItem ==
  \E item \in ItemInputs :
    /\ constructed
    /\ Returns(addItem(St, item))

RemoveItem ==
  \E index \in IndexInputs :
    /\ constructed
    /\ Returns(removeItem(St, index))

UpdateQuantity ==
  \E index \in IndexInputs, quantity \in QuantityInputs :
    /\ constructed
    /\ Returns(updateQuantity(St, index, quantity))

ClearCart ==
  /\ constructed
  /\ Returns(clearCart(St))

\* createOrder(name), and createOrder() with the id it generates
CreateOrder ==
  \/ \E name \in OrderIdInputs :
       /\ constructed
       /\ Returns(createOrder(St, name, ""))
  \/ \E gen \in generateOrderId(St, "order") :
       /\ constructed
       /\ Returns(createOrder(St, "", gen))

SwitchToOrder ==
  \E orderId \in OrderIds :
    /\ constructed
    /\ Returns(switchToOrder(St, orderId))

DuplicateCurrentOrder ==
  \E newOrderId \in generateOrderId(St, "copy") :
    /\ constructed
    /\ Returns(duplicateCurrentOrder(St, newOrderId))

DeleteOrder ==
  \E orderId \in OrderIds :
    /\ constructed
    /\ Returns(deleteOrder(St, orderId))

RenameOrder ==
  \E oldOrderId \in OrderIds, newOrderId \in OrderIdInputs :
    /\ constructed
    /\ Returns(renameOrder(St, oldOrderId, newOrderId))

SaveAsTemplate ==
  \E templateName \in TemplateNameInputs :
    \E gen \in generateOrderId(St, "template") :
      /\ constructed
      /\ Returns(saveAsTemplate(St, templateName, gen))

LoadTemplate ==
  \E templateId \in TemplateIds, targetOrderId \in OrderIdInputs \cup {""} :
    /\ constructed
    /\ Returns(loadTemplate(St, templateId, targetOrderId))

DeleteTemplate ==
  \E templateId \in TemplateIds :
    /\ constructed
    /\ Returns(deleteTemplate(St, templateId))

UpdateTemplate ==
  \E templateId \in TemplateIds, newName \in NewNameInputs,
     newItems \in NewItemsInputs :
    /\ constructed
    /\ Returns(updateTemplate(St, templateId, newName, newItems))

DuplicateTemplate ==
  \E templateId \in TemplateIds, newName \in NewNameInputs :
    \E gen \in generateOrderId(St, "template") :
      /\ constructed
      /\ Returns(duplicateTemplate(St, templateId, newName, gen))

\* A submit event reaches the handlers of a form through its submit button,
\* by a click or by implicit submission; a disabled button gives none.
CanSubmit(f) ==
  /\ constructed
  /\ f \in scope.forms
  /\ ~ui.submit[f].disabled
  /\ Len(ui.submit[f].inflight) < MaxInFlight

\* processOrder(form) up to its await: isValid is the outcome of the field
\* validation.  A submission with invalid fields or an empty cart shows a
\* notification and returns.
ProcessOrder ==
  \E isValid \in BOOLEAN :
    /\ CanSubmit("order")
    /\ ui' = IF isValid /\ Len(cart(St)) # 0
             THEN [ui EXCEPT !.submit["order"] = BeginSubmission(@)]
             ELSE ui
    /\ UNCHANGED <<heap, orders, activeOrderId, orderTemplates, store,
                   listeners, constructed, scope, debounced>>

\* The timer of simulateOrderProcessing fires and processOrder runs to its
\* end: clearCart(), the timer of showOrderSuccess, hideLoading.  A timer of
\* showOrderSuccess still pending was set earlier and fires first.
OrderProcessed ==
  /\ constructed
  /\ ui.submit["order"].inflight # <<>>
  /\ ~ui.confirming
  /\ ManagerIs(clearCart(St))
  /\ ui' = [ui EXCEPT !.submit["order"] = EndSubmission(@),
                      !.confirming = TRUE]
  /\ UNCHANGED <<listeners, constructed, scope, debounced>>

\* The timer of showOrderSuccess fires: the modal shows
\* this.cartManager.getTotal() as it is now.
ShowOrderSuccess ==
  /\ constructed
  /\ ui.confirming
  /\ ui' = [ui EXCEPT !.confirming = FALSE,
                      !.modal = <<getTotal(St)>>]
  /\ UNCHANGED <<heap, orders, activeOrderId, orderTemplates, store,
                 listeners, constructed, scope, debounced>>

\* handleLogin(e) up to its await: filled says whether email and password
\* are given.
HandleLogin ==
  \E filled \in BOOLEAN :
    /\ CanSubmit("login")
    /\ ui' = IF filled THEN [ui EXCEPT !.submit["login"] = BeginSubmission(@)]
             ELSE ui
    /\ UNCHANGED <<heap, orders, activeOrderId, orderTemplates, store,
                   listeners, constructed, scope, debounced>>

\* handleSignup(e) up to its await: valid says whether the fields are
\* given, the email well-formed and the password long enough.
HandleSignup ==
  \E valid \in BOOLEAN :
    /\ CanSubmit("signup")
    /\ ui' = IF valid THEN [ui EXCEPT !.submit["signup"] = BeginSubmission(@)]
             ELSE ui
    /\ UNCHANGED <<heap, orders, activeOrderId, orderTemplates, store,
                   listeners, constructed, scope, debounced>>

\* The timer of simulateLogin fires (it resolves: the credentials passed
\* the validation) and handleLogin runs to its end: saveUser, the redirect
\* timer, hideLoading.  A redirect timer of an earlier login fires first.
LoggedIn ==
  /\ constructed
  /\ ui.submit["login"].inflight # <<>>
  /\ "login" \notin ui.redirecting
  /\ ui' = [ui EXCEPT !.submit["login"] = EndSubmission(@),
                      !.user = TRUE,
                      !.redirecting = @ \cup {"login"}]
  /\ UNCHANGED <<heap, orders, activeOrderId, orderTemplates, store,
                 listeners, constructed, scope, debounced>>

\* The timer of simulateSignup fires and handleSignup runs to its end.
SignedUp ==
  /\ constructed
  /\ ui.submit["signup"].inflight # <<>>
  /\ "signup" \notin ui.redirecting
  /\ ui' = [ui EXCEPT !.submit["signup"] = EndSubmission(@),
                      !.redirecting = @ \cup {"signup"}]
  /\ UNCHANGED <<heap, orders, activeOrderId, orderTemplates, store,
                 listeners, constructed, scope, debounced>>

\* A redirect timer fires: window.location.href is assigned, the page and
\* its timers are gone, and the next page loads the script, which
\* constructs its managers from the store.
Redirect ==
  /\ constructed
  /\ ui.redirecting # {}
  /\ ManagerIs(constructor(store))
  /\ listeners' = 0
  /\ ui' = LoadedPage(ui.user)
  /\ UNCHANGED <<constructed, scope, debounced>>

\* The manager as new CartManager() leaves it over an empty store.
Init ==
  LET s == Collect(constructor(EmptyStore))
  IN /\ heap = s.heap
     /\ orders = s.orders
     /\ activeOrderId = s.activeOrderId
     /\ orderTemplates = s.orderTemplates
     /\ store = s.store
     /\ listeners = s.listeners
     /\ ui = LoadedPage(FALSE)
     /\ constructed = TRUE
     /\ scope \in Scopes
     /\ debounced = debounce(FALSE)

Next ==
  \/ AddItem
  \/ RemoveItem
  \/ UpdateQuantity
  \/ ClearCart
  \/ CreateOrder
  \/ SwitchToOrder
  \/ DuplicateCurrentOrder
  \/ DeleteOrder
  \/ RenameOrder
  \/ SaveAsTemplate
  \/ LoadTemplate
  \/ DeleteTemplate
  \/ UpdateTemplate
  \/ DuplicateTemplate
  \/ OnChange
  \/ ProcessOrder
  \/ OrderProcessed
  \/ ShowOrderSuccess
  \/ HandleLogin
  \/ LoggedIn
  \/ HandleSignup
  \/ SignedUp
  \/ Redirect

Spec == Init /\ [][Next]_vars

\* Pending timers eventually fire: those of simulateOrderProcessing,
\* showOrderSuccess, simulateLogin, simulateSignup and the redirects.
\* Nothing obliges the user to act.
TimersFire ==
  /\ WF_vars(OrderProcessed)
  /\ WF_vars(ShowOrderSuccess)
  /\ WF_vars(LoggedIn)
  /\ WF_vars(SignedUp)
  /\ WF_vars(Redirect)

SpecLive == Spec /\ TimersFire

---------------------------------------------------------------------------
(* Construction over any content of the store *)

StoredItem == [name |-> <<"P">>, price |-> 100, quantity |-> 1]

ActiveIdContents == {Absent, Stored(""), Stored("default"), Stored("lunch")}

OrdersContents ==
  {Absent, Unparseable, Stored(<<>>),
   Stored([id \in {"default"} |-> <<>>]),
   Stored([id \in {"default"} |-> <<StoredItem>>]),
   Stored([id \in {"lunch"} |-> <<StoredItem>>]),
   Stored([id \in {"default", "lunch"} |->
             IF id = "lunch" THEN <<StoredItem>> ELSE <<>>])}

TemplatesContents ==
  {Absent, Unparseable, Stored(<<>>),
   Stored(<<[id |-> GenId("template", 1), name |-> <<"T">>,
             items |-> <<StoredItem>>, total |-> 100, itemCount |-> 1]>>)}

BootStores ==
  [active : ActiveIdContents, orders : OrdersContents,
   templates : TemplatesContents]

\* The page before new CartManager() runs: only the store has content.
InitBoot ==
  /\ store \in BootStores
  /\ heap = <<>>
  /\ orders = <<>>
  /\ activeOrderId = ""
  /\ orderTemplates = <<>>
  /\ listeners = 0
  /\ ui = LoadedPage(FALSE)
  /\ constructed = FALSE
  /\ scope = [orders |-> MaxOrders, templates |-> MaxTemplates,
              rows |-> MaxRows, objs |-> MaxObjs, low |-> 1, listeners |-> 0,
              forms |-> {}]
  /\ debounced = debounce(FALSE)

Constructor ==
  /\ ~constructed
  /\ LET s == Collect(constructor(store))
     IN /\ heap' = s.heap
        /\ orders' = s.orders
        /\ activeOrderId' = s.activeOrderId
        /\ orderTemplates' = s.orderTemplates
        /\ store' = s.store
        /\ listeners' = s.listeners
  /\ constructed' = TRUE
  /\ UNCHANGED <<ui, scope, debounced>>

NextBoot == Constructor

SpecBoot == InitBoot /\ [][NextBoot]_vars

---------------------------------------------------------------------------
(* A debounced function and the clock *)

\* The page as loaded over an empty store, and a function debounce
\* returned, with the immediate flag or without.
InitDebounce ==
  LET s == Collect(constructor(EmptyStore))
  IN /\ heap = s.heap
     /\ orders = s.orders
     /\ activeOrderId = s.activeOrderId
     /\ orderTemplates = s.orderTemplates
     /\ store = s.store
     /\ listeners = s.listeners
     /\ ui = LoadedPage(FALSE)
     /\ constructed = TRUE
     /\ scope = [orders |-> 1, templates |-> 0, rows |-> 1, objs |-> 1,
                 low |-> 1, listeners |-> 0, forms |-> {}]
     /\ debounced \in {debounce(immediate) : immediate \in BOOLEAN}

\* The debounced function is called (an input event of a form field).  A
\* timer that is due fires before anything that happens later.  A call
\* when no timer is pending opens a burst.
Call ==
  \E args \in Args :
    /\ \A t \in debounced.timers : t.left > 0
    /\ LET d == IF debounced.timers = {}
                THEN [debounced EXCEPT !.calls = <<>>, !.invoked = <<>>]
                ELSE debounced
       IN /\ Len(d.calls) < MaxCalls
          /\ debounced' = executedFunction(d, args)
    /\ UNCHANGED <<heap, orders, activeOrderId, orderTemplates, store,
                   listeners, ui, constructed, scope>>

\* A tick of the clock passes without a call.
Tick ==
  /\ debounced.timers # {}
  /\ \A t \in debounced.timers : t.left > 0
  /\ debounced' = [debounced EXCEPT
                     !.timers = {[t EXCEPT !.left = @ - 1] : t \in @}]
  /\ UNCHANGED <<heap, orders, activeOrderId, orderTemplates, store,
                 listeners, ui, constructed, scope>>

\* A timer that is due fires.
Later ==
  \E t \in debounced.timers :
    /\ t.left = 0
    /\ debounced' = later(debounced, t)
    /\ UNCHANGED <<heap, orders, activeOrderId, orderTemplates, store,
                   listeners, ui, constructed, scope>>

NextDebounce == Call \/ Tick \/ Later

SpecDebounce == InitDebounce /\ [][NextDebounce]_vars

---------------------------------------------------------------------------
(* The order-id state machine: claims C1 to C7 *)

\* The item values of every order.
OrderItems(s) == [id \in DOMAIN s.orders |-> Items(s.heap, s.orders[id])]

\* C1: in every state reachable from an empty store by CartManager
\* operations, activeOrderId is a key of orders.
C1_ActiveOrderExists == activeOrderId \in getAllOrderIds(St)

\* C2: in every state reachable after construction, "default" is a key of
\* orders.
C2_DefaultOrderExists == HasOrder(St, "default")

\* C3: whatever the store holds at construction, afterwards orders contains
\* "default" and activeOrderId is a key of orders.
C3_ConstructionEstablishesOrders ==
  constructed => HasOrder(St, "default") /\ HasOrder(St, activeOrderId)

\* C4: whenever the active order a is not "default", deleteOrder(a) returns
\* success, leaves "default" active and a no longer among getAllOrderIds().
C4_DeleteActiveFallsBackToDefault ==
  activeOrderId # "default" =>
    LET t == deleteOrder(St, activeOrderId)
    IN /\ t.ret = "true"
       /\ t.activeOrderId = "default"
       /\ activeOrderId \notin getAllOrderIds(t)

\* C5: in every reachable state deleteOrder("default") returns failure and
\* leaves the items of "default", the set of order ids and activeOrderId
\* as they were.
C5_DeleteDefaultRefused ==
  LET t == deleteOrder(St, "default")
  IN /\ t.ret = "false"
     /\ getAllOrderIds(t) = getAllOrderIds(St)
     /\ OrderItems(t) = OrderItems(St)
     /\ t.activeOrderId = activeOrderId

C5_Witness ==
  /\ HasOrder(St, "default")
  /\ orders["default"] # <<>>
  /\ activeOrderId # "default"
  /\ HasOrder(St, activeOrderId)
  /\ deleteOrder(St, "default").ret = "false"

\* C6: renameOrder("default", newId) returns failure and leaves orders and
\* activeOrderId as they were, for every newId, free ones included.
C6_RenameDefaultRefused ==
  \A newId \in OrderIds :
    LET t == renameOrder(St, "default", newId)
    IN /\ t.ret = "false"
       /\ OrderItems(t) = OrderItems(St)
       /\ t.activeOrderId = activeOrderId

\* C7: renameOrder(a, b) with b an existing order id, a = b included,
\* returns failure and leaves the items of a and b, the set of order ids and
\* activeOrderId as they were.
C7_RenameOntoExistingRefused ==
  \A a \in OrderIds, b \in getAllOrderIds(St) :
    LET t == renameOrder(St, a, b)
    IN /\ t.ret = "false"
       /\ getAllOrderIds(t) = getAllOrderIds(St)
       /\ OrderItems(t) = OrderItems(St)
       /\ t.activeOrderId = activeOrderId

C7_Witness ==
  \E a \in getAllOrderIds(St), b \in getAllOrderIds(St) :
    /\ a # b
    /\ orders[a] # <<>>
    /\ orders[b] = <<>>
    /\ renameOrder(St, a, b).ret = "false"

---------------------------------------------------------------------------
(* Copies and snapshots: claims C8 to C10 *)

\* The states one edit of the active order can leave s in: addItem,
\* updateQuantity, removeItem, clearCart, loadTemplate into the active order.
OrderEdits(s) ==
  {addItem(s, item) : item \in ItemInputs}
  \cup {updateQuantity(s, index, quantity) :
          index \in IndexInputs, quantity \in QuantityInputs}
  \cup {removeItem(s, index) : index \in IndexInputs}
  \cup {clearCart(s)}
  \cup {loadTemplate(s, templateId, "") : templateId \in TemplateIds}

\* The states one template operation can leave s in: updateTemplate,
\* deleteTemplate, duplicateTemplate.
TemplateEdits(s) ==
  {updateTemplate(s, templateId, newName, newItems) :
     templateId \in TemplateIds, newName \in NewNameInputs,
     newItems \in NewItemsInputs}
  \cup {deleteTemplate(s, templateId) : templateId \in TemplateIds}
  \cup UNION {{duplicateTemplate(s, templateId, newName, gen) :
                 templateId \in TemplateIds, newName \in NewNameInputs} :
              gen \in generateOrderId(s, "template")}

\* The item values of the template of this id.
TemplateItems(s, templateId) ==
  Items(s.heap, s.orderTemplates[FindTemplate(s, templateId)].items)

\* C8: after duplicateCurrentOrder() has made order d from the active order
\* a, an edit of either leaves the names, prices and quantities of the
\* other's items as they were.
C8_DuplicateIsIndependent ==
  \A d \in generateOrderId(St, "copy") :
    LET s1 == duplicateCurrentOrder(St, d)
        s2 == switchToOrder(s1, d)
        a == activeOrderId
    IN HasOrder(St, a) =>
         /\ \A e \in OrderEdits(s1) :
              Items(e.heap, e.orders[d]) = Items(s1.heap, s1.orders[d])
         /\ \A e \in OrderEdits(s2) :
              Items(e.heap, e.orders[a]) = Items(s2.heap, s2.orders[a])

\* C9: once saveAsTemplate has made a template, no edit of an order, an
\* order loaded from the template included, changes the template's items,
\* and no template operation changes the items of any order.
C9_TemplateIsSnapshot ==
  \A templateName \in TemplateNameInputs :
    \A gen \in generateOrderId(St, "template") :
      LET s1 == saveAsTemplate(St, templateName, gen)
          s2 == loadTemplate(s1, gen, "")
      IN s1.ret # "false" =>
           /\ \A e \in OrderEdits(s1) :
                TemplateItems(e, gen) = TemplateItems(s1, gen)
           /\ \A e \in OrderEdits(s2) :
                TemplateItems(e, gen) = TemplateItems(s2, gen)
           /\ \A e \in TemplateEdits(s1) : OrderItems(e) = OrderItems(s1)

\* C10: saveAsTemplate("T"), then clearCart(), then loadTemplate(id of T)
\* leave the active order with the items it had at the save, in the same
\* order, and the template's total and itemCount equal getTotal() and
\* getItemCount() afterwards.
C10_SaveClearLoadRestores ==
  \A templateName \in TemplateNameInputs :
    \A gen \in generateOrderId(St, "template") :
      LET s1 == saveAsTemplate(St, templateName, gen)
          s2 == clearCart(s1)
          s3 == loadTemplate(s2, s1.ret, "")
          template == s3.orderTemplates[FindTemplate(s3, s1.ret)]
      IN s1.ret # "false" =>
           /\ s3.ret = "true"
           /\ Items(s3.heap, cart(s3)) = Items(heap, cart(St))
           /\ template.total = getTotal(s3)
           /\ template.itemCount = getItemCount(s3)

C10_Witness ==
  /\ Len(cart(St)) >= 2
  /\ activeOrderId # "default"
  /\ \E gen \in generateOrderId(St, "template") :
       saveAsTemplate(St, <<"T">>, gen).ret = gen

---------------------------------------------------------------------------
(* Cart arithmetic: claims C11 to C13 *)

\* The calls in turn: addItem of each descriptor of the sequence.
RECURSIVE AddAll(_, _)
AddAll(s, items) ==
  IF items = <<>> THEN s ELSE AddAll(addItem(s, Head(items)), Tail(items))

\* The rows of the active order with this name and price.
RowsWith(s, name, price) ==
  {i \in 1..Len(cart(s)) :
     s.heap[cart(s)[i]].name = name /\ s.heap[cart(s)[i]].price = price}

\* Descriptors of one name and price: without a quantity (1 is added), with
\* quantity 1, with quantity 2.
SameItemInputs(name, price) ==
  {[name |-> name, price |-> price],
   [name |-> name, price |-> price, quantity |-> 1],
   [name |-> name, price |-> price, quantity |-> 2]}

\* Sequences of one to three of them.
SameItemRuns(name, price) ==
  UNION {[1..n -> SameItemInputs(name, price)] : n \in 1..3}

\* C11: a run of successful addItem calls of one (name, price) on an active
\* order without such a row leaves exactly one row of that name (as stored)
\* and price, its quantity the sum of the quantities added.
C11_AddsMergeIntoOneRow ==
  \A name \in {<<"P">>, <<"<">>}, price \in {100} :
    RowsWith(St, sanitizeInput(name), price) = {} =>
      \A run \in SameItemRuns(name, price) :
        LET t == AddAll(St, run)
            rows == RowsWith(t, sanitizeInput(name), price)
        IN /\ t.ret = "true"
           /\ Cardinality(rows) = 1
           /\ \A i \in rows :
                t.heap[cart(t)[i]].quantity =
                  SumSeq([k \in 1..Len(run) |-> QuantityOf(run[k])])

\* C12: every item of every order has a quantity of at least 1.
C12_QuantitiesAtLeastOne ==
  \A id \in DOMAIN orders :
    \A i \in 1..Len(orders[id]) : heap[orders[id][i]].quantity >= 1

\* The states one mutating operation can leave s in: an edit of the active
\* order or a switch of the active order.
Mutations(s) ==
  OrderEdits(s) \cup {switchToOrder(s, orderId) : orderId \in OrderIds}

Pizza(quantity) ==
  [name |-> <<"P", "i", "z", "z", "a">>, price |-> 250, quantity |-> quantity]

---------------------------------------------------------------------------
(* Templates, the store and the observers: claims C14 to C16 *)

\* C14: no two templates of the collection have the same name.
C14_TemplateNamesUnique ==
  \A i \in 1..Len(orderTemplates), j \in 1..Len(orderTemplates) :
    i # j => orderTemplates[i].name # orderTemplates[j].name

\* What the loaders read back from a key of the store: the value written,
\* and the loaders' defaults for a key never written.
ReadBack(entry, default) == IF entry.kind = "value" THEN entry.v ELSE default

\* C15: after every mutating operation the three keys of the store hold the
\* serialization of orders, activeOrderId and orderTemplates as they are in
\* memory (a key never written reads back as the loaders' default).
C15_StoreIsWrittenThrough ==
  /\ ReadBack(store.orders, <<>>) = StringifyOrders(St)
  /\ loadActiveOrderId(store) = activeOrderId
  /\ ReadBack(store.templates, <<>>) = StringifyTemplates(St)

\* The states one operation on the orders can leave s in: createOrder,
\* switchToOrder, duplicateCurrentOrder, deleteOrder, renameOrder.
OrderCalls(s) ==
  {createOrder(s, name, "") : name \in OrderIdInputs}
  \cup {createOrder(s, "", gen) : gen \in generateOrderId(s, "order")}
  \cup {switchToOrder(s, orderId) : orderId \in OrderIds}
  \cup {duplicateCurrentOrder(s, gen) : gen \in generateOrderId(s, "copy")}
  \cup {deleteOrder(s, orderId) : orderId \in OrderIds}
  \cup {renameOrder(s, oldOrderId, newOrderId) :
          oldOrderId \in OrderIds, newOrderId \in OrderIdInputs}

\* The values registered callbacks were called with during the call that
\* left t; the last of them.
LastHeard(t) == t.heard[Len(t.heard)]

\* C16: after every operation that changes what is persisted, every
\* registered callback has been called, and the last value it was called
\* with is the item sequence of the order active when the operation returns.
C16_ObserversSeeActiveOrder ==
  listeners > 0 =>
    \A t \in OrderEdits(St) \cup OrderCalls(St) :
      t.store # store =>
        /\ t.heard # <<>>
        /\ LastHeard(t) = Items(t.heap, cart(t))

---------------------------------------------------------------------------
(* Submissions and soft failures: claims C17 to C20 *)

\* C17: while a submission of the order, login or signup form awaits its
\* timer, the submit button of the form is disabled, and no form has more
\* than one submission awaiting.
C17_OneSubmissionInFlight ==
  \A f \in Forms :
    /\ Len(ui.submit[f].inflight) <= 1
    /\ ui.submit[f].inflight # <<>> => ui.submit[f].disabled

C17_Witness ==
  /\ ui.user
  /\ \A f \in {"login", "signup"} :
       ui.submit[f].inflight # <<>> /\ ui.submit[f].disabled

\* C18: saveAsTemplate(name) returns false and leaves the templates as they
\* were when name is empty or blank, or when a template bears the trimmed,
\* sanitized name; otherwise it appends exactly one template, of that name,
\* and returns its id.
C18_SaveAsTemplateRefusals ==
  \A templateName \in TemplateNameInputs :
    \A gen \in generateOrderId(St, "template") :
      LET t == saveAsTemplate(St, templateName, gen)
          n == Len(orderTemplates)
          refused == \/ trim(templateName) = <<>>
                     \/ sanitizeInput(trim(templateName)) \in TemplateNames(St)
      IN IF refused
         THEN /\ t.ret = "false"
              /\ StringifyTemplates(t) = StringifyTemplates(St)
         ELSE /\ t.ret = gen
              /\ Len(t.orderTemplates) = n + 1
              /\ SubSeq(StringifyTemplates(t), 1, n) = StringifyTemplates(St)
              /\ t.orderTemplates[n + 1].id = gen
              /\ t.orderTemplates[n + 1].name = sanitizeInput(trim(templateName))

C18_Witness ==
  /\ <<"T">> \in TemplateNames(St)
  /\ \E gen \in generateOrderId(St, "template") :
       /\ saveAsTemplate(St, <<" ", "T">>, gen).ret = "false"
       /\ saveAsTemplate(St, <<" ">>, gen).ret = "false"

\* Ids a caller may look an order up by: those the operations pass, an id
\* nothing bears, and the inherited names.
LookupIds == OrderIds \cup {"nonexistent"} \cup InheritedKeys

\* C19: switchToOrder(id) makes id the active order when id is an existing
\* order; when it is not, it leaves activeOrderId, orders and templates as
\* they were and shows an error notification; it never changes the items of
\* an order.
C19_SwitchToOrderFailsSoft ==
  \A orderId \in LookupIds :
    LET t == switchToOrder(St, orderId)
    IN /\ OrderItems(t) = OrderItems(St)
       /\ IF orderId \in getAllOrderIds(St)
          THEN t.activeOrderId = orderId
          ELSE /\ t.activeOrderId = activeOrderId
               /\ StringifyTemplates(t) = StringifyTemplates(St)
               /\ "error" \in Range(t.notes)

\* C20: createOrder(name) with a name that is no existing order id adds
\* that id with an empty item sequence and makes it the active order; with
\* the id of an existing order it changes neither the items of that order,
\* nor the set of order ids, nor activeOrderId; either way it returns the id.
C20_CreateOrderAddsOrKeeps ==
  \A name \in LookupIds :
    LET t == createOrder(St, name, "")
    IN /\ t.ret = name
       /\ IF name \in getAllOrderIds(St)
          THEN /\ OrderItems(t) = OrderItems(St)
               /\ t.activeOrderId = activeOrderId
          ELSE /\ getAllOrderIds(t) = getAllOrderIds(St) \cup {name}
               /\ t.orders[name] = <<>>
               /\ t.activeOrderId = name

-----------------------------------------------------------------------------
(* claims C21 to C23 *)

\* The quantities a caller hands to updateQuantity: the row's quantity plus
\* or minus one from the quantity buttons, and the spec's direct calls.
CoercedQuantities == QuantityInputs \cup {1}

\* C21: updateQuantity(index, q) with index inside the active order: when q
\* is a positive integer the row's quantity becomes q and no row is added
\* or removed; when q is zero or negative the row is removed and the other
\* rows keep their relative order and contents.
C21_UpdateQuantitySetsOrRemoves ==
  \A index \in 0..(Len(cart(St)) - 1) : \A q \in CoercedQuantities :
    LET t == updateQuantity(St, index, q)
    IN IF q > 0
       THEN /\ cart(t) = cart(St)
            /\ t.heap[cart(t)[index + 1]].quantity = q
       ELSE Items(t.heap, cart(t)) =
              RemoveAt(Items(heap, cart(St)), index + 1)

\* a two-row active order: removing one row leaves another to compare
C21_Witness ==
  /\ Len(cart(St)) = 2
  /\ Len(cart(updateQuantity(St, 0, 0))) = 1
  /\ heap[cart(St)[2]].quantity # 2
  /\ updateQuantity(St, 1, 2).heap[cart(St)[2]].quantity = 2

\* C22: addItem(item) returns a falsy result and changes no order when the
\* name or the price is missing, and returns true and adds or merges the
\* item for every descriptor with a non-empty name and a price that is a
\* non-negative number, price 0 included.
C22_AddItemAcceptsEveryPrice ==
  \A item \in ItemInputs :
    LET t == addItem(St, item)
        name == sanitizeInput(item.name)
        added == /\ Len(cart(t)) = Len(cart(St)) + 1
                 /\ t.heap[cart(t)[Len(cart(t))]] =
                      [name |-> name, price |-> item.price,
                       quantity |-> QuantityOf(item)]
        merged == /\ cart(t) = cart(St)
                  /\ \E i \in RowsWith(St, name, item.price) :
                       t.heap[cart(t)[i]].quantity =
                         heap[cart(St)[i]].quantity + QuantityOf(item)
    IN IF NameFalsy(item) \/ ~HasField(item, "price")
       THEN /\ t.ret = "false"
            /\ OrderItems(t) = OrderItems(St)
       ELSE item.price >= 0 => t.ret = "true" /\ (added \/ merged)

\* What a caller can do with a summary: push onto, splice or overwrite the
\* elements of summary.items, which is an array of its own, so the manager
\* is as it was; or assign the quantity or the price of an item object
\* reached through summary.items.
SummaryEdits(s, summary) ==
  {s}
    \cup {[s EXCEPT !.heap[summary.items[i]].quantity = q] :
            i \in 1..Len(summary.items), q \in 1..MaxQty}
    \cup {[s EXCEPT !.heap[summary.items[i]].price = p] :
            i \in 1..Len(summary.items), p \in {100, 250}}

\* C23: no change a caller makes through the value getOrderSummary returned
\* (adding, removing or replacing elements of its items, changing the
\* quantity or price of an item reached through it) alters the items of an
\* order of the manager.
C23_SummaryIsDetached ==
  \A orderId \in DOMAIN orders \cup {""} :
    \A t \in SummaryEdits(St, getOrderSummary(St, orderId)) :
      OrderItems(t) = OrderItems(St)

-----------------------------------------------------------------------------
(* claims C24 to C26 *)

\* The item values of every template, in the collection's order.
TemplateValues(s) ==
  [i \in 1..Len(s.orderTemplates) |->
     [s.orderTemplates[i] EXCEPT !.items = Items(s.heap, @)]]

\* C24: loadTemplate(templateId, target) with an existing template makes
\* the items of the target order (of the active order when no target is
\* given) the template's items, whatever the order held before, and leaves
\* every other order, activeOrderId and the template collection as they
\* were.
C24_LoadTemplateReplacesTarget ==
  \A templateId \in TemplateIds : \A target \in LookupIds \cup {""} :
    FindTemplate(St, templateId) # 0 =>
      LET t == loadTemplate(St, templateId, target)
          orderId == IF target = "" THEN activeOrderId ELSE target
      IN /\ t.ret = "true"
         /\ orderId \in DOMAIN t.orders
         /\ OrderItems(t)[orderId] = TemplateItems(St, templateId)
         /\ \A id \in DOMAIN orders \ {orderId} :
              id \in DOMAIN t.orders /\ OrderItems(t)[id] = OrderItems(St)[id]
         /\ DOMAIN t.orders \subseteq DOMAIN orders \cup {orderId}
         /\ t.activeOrderId = activeOrderId
         /\ TemplateValues(t) = TemplateValues(St)

\* a template loaded into an order that holds other items, beside a second
\* order that holds items too
C24_Witness ==
  \E templateId \in TemplateIds : \E target \in DOMAIN orders :
    /\ FindTemplate(St, templateId) # 0
    /\ OrderItems(St)[target] # <<>>
    /\ OrderItems(St)[target] # TemplateItems(St, templateId)
    /\ \E id \in DOMAIN orders \ {target} : OrderItems(St)[id] # <<>>
    /\ OrderItems(loadTemplate(St, templateId, target))[target] =
         TemplateItems(St, templateId)

\* The orders, the active id and the templates of t are those of the
\* current state.
ManagerUnchanged(t) ==
  /\ DOMAIN t.orders = DOMAIN orders
  /\ OrderItems(t) = OrderItems(St)
  /\ t.activeOrderId = activeOrderId
  /\ TemplateValues(t) = TemplateValues(St)

\* The calls the claim lists, on arguments that make them fail: an index
\* outside the active order, an id that is not an order id, a template id
\* no template has.
FailingCalls(s) ==
  {removeItem(s, index) :
     index \in (-1..MaxRows) \ (0..(Len(cart(s)) - 1))}
  \cup {updateQuantity(s, index, quantity) :
          index \in (-1..MaxRows) \ (0..(Len(cart(s)) - 1)),
          quantity \in QuantityInputs}
  \cup {deleteOrder(s, orderId) : orderId \in LookupIds \ DOMAIN s.orders}
  \cup {renameOrder(s, oldOrderId, newOrderId) :
          oldOrderId \in LookupIds \ DOMAIN s.orders,
          newOrderId \in {"dinner"}}
  \cup UNION
         {{loadTemplate(s, templateId, targetOrderId) :
             targetOrderId \in OrderIdInputs \cup {""}}
          \cup {deleteTemplate(s, templateId)}
          \cup {updateTemplate(s, templateId, newName, newItems) :
                  newName \in NewNameInputs, newItems \in NewItemsInputs}
          \cup {duplicateTemplate(s, templateId, newName, "template-9") :
                  newName \in NewNameInputs} :
          templateId \in {x \in TemplateIds \cup {"nonexistent"} :
                            FindTemplate(s, x) = 0}}

\* C25: every failing call (removeItem and updateQuantity with an index out
\* of range, deleteOrder of an id that is no order, renameOrder of an old id
\* that is no order, loadTemplate, deleteTemplate, updateTemplate and
\* duplicateTemplate with an unknown template id) leaves orders,
\* activeOrderId and the templates as they were.
C25_FailingCallsChangeNothing ==
  \A t \in FailingCalls(St) : ManagerUnchanged(t)

\* The states one call that is neither createOrder, duplicateCurrentOrder,
\* deleteOrder nor renameOrder can leave s in: the cart operations,
\* switchToOrder and the template operations, loadTemplate with and without
\* a target.
NonOrderCalls(s) ==
  OrderEdits(s) \cup TemplateEdits(s)
    \cup {switchToOrder(s, orderId) : orderId \in LookupIds}
    \cup UNION {{saveAsTemplate(s, templateName, gen) :
                   templateName \in TemplateNameInputs} :
                gen \in generateOrderId(s, "template")}
    \cup {loadTemplate(s, templateId, targetOrderId) :
            templateId \in TemplateIds, targetOrderId \in LookupIds}

\* C26: the cart operations (addItem, removeItem, updateQuantity,
\* clearCart), switchToOrder and every template operation, loadTemplate
\* with any targetOrderId included, neither add nor remove an order id.
C26_OnlyOrderCallsChangeIds ==
  \A t \in NonOrderCalls(St) : getAllOrderIds(t) = getAllOrderIds(St)

-----------------------------------------------------------------------------
(* claims C27 to C30 *)

\* C27: renameOrder(oldId, newId) with oldId an order id and newId not an
\* order id returns success; afterwards newId holds the items oldId held,
\* oldId is no order id, activeOrderId is newId if it was oldId and is
\* otherwise as it was, and every other order is as it was.
C27_RenameMovesOrder ==
  \A oldId \in getAllOrderIds(St) :
    \A newId \in LookupIds \ getAllOrderIds(St) :
      LET t == renameOrder(St, oldId, newId)
      IN /\ t.ret = "true"
         /\ getAllOrderIds(t) = (getAllOrderIds(St) \ {oldId}) \cup {newId}
         /\ OrderItems(t)[newId] = OrderItems(St)[oldId]
         /\ t.activeOrderId =
              IF activeOrderId = oldId THEN newId ELSE activeOrderId
         /\ \A id \in getAllOrderIds(St) \ {oldId} :
              OrderItems(t)[id] = OrderItems(St)[id]

\* C28: duplicateCurrentOrder() adds exactly one order, whose items are
\* those of the active order at the call, leaves activeOrderId and every
\* order there was as they were, and returns the new order's id.
C28_DuplicateAddsOneOrder ==
  \A newOrderId \in generateOrderId(St, "copy") :
    LET t == duplicateCurrentOrder(St, newOrderId)
    IN /\ t.ret \notin getAllOrderIds(St)
       /\ getAllOrderIds(t) = getAllOrderIds(St) \cup {t.ret}
       /\ OrderItems(t)[t.ret] = Items(heap, cart(St))
       /\ t.activeOrderId = activeOrderId
       /\ \A id \in getAllOrderIds(St) :
            OrderItems(t)[id] = OrderItems(St)[id]

\* an active order with an item, beside another order, is duplicated
C28_Witness ==
  /\ cart(St) # <<>>
  /\ Cardinality(getAllOrderIds(St)) >= 2
  /\ activeOrderId # "default"
  /\ \E newOrderId \in generateOrderId(St, "copy") :
       duplicateCurrentOrder(St, newOrderId).ret = newOrderId

\* C29: updateTemplate(id, newName, newItems) on an existing template makes
\* the name the sanitized trimmed newName when newName is not empty, whether
\* or not another template has that name, and when newItems is given makes
\* the items newItems and total and itemCount the sums of price * quantity
\* and of quantity over newItems; every other template and every order is
\* as it was.
C29_UpdateTemplateReplaces ==
  \A templateId \in TemplateIds : \A newName \in TemplateNameInputs :
    \A newItems \in NewItemsInputs :
      LET template == FindTemplate(St, templateId)
          t == updateTemplate(St, templateId, newName, newItems)
          after == TemplateValues(t)[template]
      IN template # 0 =>
           /\ Len(t.orderTemplates) = Len(orderTemplates)
           /\ after.id = templateId
           /\ newName # <<>> => after.name = sanitizeInput(trim(newName))
           /\ newItems.given =>
                /\ after.items = newItems.items
                /\ after.total = TotalOf(newItems.items)
                /\ after.itemCount = CountOf(newItems.items)
           /\ \A i \in (1..Len(orderTemplates)) \ {template} :
                TemplateValues(t)[i] = TemplateValues(St)[i]
           /\ getAllOrderIds(t) = getAllOrderIds(St)
           /\ OrderItems(t) = OrderItems(St)

\* one of two templates takes the other's name and new items of another
\* total
C29_Witness ==
  \E i, j \in 1..Len(orderTemplates) :
    /\ orderTemplates[i].name # <<"T">>
    /\ orderTemplates[j].name = <<"T">>
    /\ \E newItems \in NewItemsInputs :
         LET t == updateTemplate(St, orderTemplates[i].id, <<"T">>, newItems)
         IN /\ newItems.given
            /\ t.orderTemplates[i].name = t.orderTemplates[j].name
            /\ t.orderTemplates[i].total # orderTemplates[i].total

\* C30: in every reachable state the stored total of each template is the
\* sum of price * quantity over its items, and its stored itemCount the sum
\* of quantity over its items.
C30_TemplateTotalsMatchItems ==
  \A i \in 1..Len(orderTemplates) :
    /\ TemplateValues(St)[i].total = TotalOf(TemplateValues(St)[i].items)
    /\ TemplateValues(St)[i].itemCount = CountOf(TemplateValues(St)[i].items)



-----------------------------------------------------------------------------
(* A submission of the order form: claims C31 and C32 *)

\* processOrder(form) reaches its await: the fields are valid and
\* this.cartManager.cart.length is not 0.
SubmissionValidated(s) == Len(cart(s)) # 0

\* The states one user event can leave s in while a timer is pending: a
\* click on an add-to-cart button or a quantity or remove button, and the
\* order management calls switchToOrder, createOrder, deleteOrder.  The
\* submit button is disabled; nothing else of the page is.
UserEvents(s) ==
  {addItem(s, item) : item \in ItemInputs}
    \cup {updateQuantity(s, index, quantity) :
            index \in IndexInputs, quantity \in QuantityInputs}
    \cup {removeItem(s, index) : index \in IndexInputs}
    \cup {switchToOrder(s, orderId) : orderId \in OrderIds}
    \cup {createOrder(s, name, "") : name \in OrderIdInputs}
    \cup {createOrder(s, "", gen) : gen \in generateOrderId(s, "order")}
    \cup {deleteOrder(s, orderId) : orderId \in OrderIds}

\* processOrder after its await, when the timer of simulateOrderProcessing
\* has fired in state s: this.cartManager.clearCart().
processOrderResumes(s) == clearCart(s)

\* The total showOrderSuccess writes into the modal when its timer fires in
\* state s: this.cartManager.getTotal().
showOrderSuccess(s) == getTotal(s)

\* C31: the total the order-confirmation modal of a submission shows is the
\* total of the cart submitted, the active order's total when the
\* submission passed the check for an empty cart; here for the submissions
\* during which at most one user event happens before processOrder resumes
\* and none before the modal is built.
C31_ModalShowsSubmittedTotal ==
  SubmissionValidated(St) =>
    \A s \in {St} \cup UserEvents(St) :
      showOrderSuccess(processOrderResumes(s)) = getTotal(St)

\* C32: whatever user event (addItem, updateQuantity, removeItem,
\* switchToOrder, createOrder, deleteOrder) comes between the validation of
\* a submission and its completion, the order emptied at completion is the
\* order that was active and not empty at the validation, it holds then
\* exactly the items it held at the validation, and no other order is
\* emptied; here for one event between the two.
C32_EmptiesTheSubmittedOrder ==
  SubmissionValidated(St) =>
    \A s \in {St} \cup UserEvents(St) :
      LET t == processOrderResumes(s)
      IN /\ s.activeOrderId = activeOrderId
         /\ Items(s.heap, cart(s)) = Items(heap, cart(St))
         /\ \A id \in getAllOrderIds(s) \ {activeOrderId} :
              id \in getAllOrderIds(t) /\ OrderItems(t)[id] = OrderItems(s)[id]

-----------------------------------------------------------------------------
(* Submit controls: claim C33 *)

\* C33: provided pending timers eventually fire, a submit control of the
\* order, login or signup form that a submission has disabled is eventually
\* enabled again and bears its original label.
C33_SubmitControlsComeBack ==
  \A f \in Forms :
    ui.submit[f].disabled ~>
      (~ui.submit[f].disabled /\ ui.submit[f].label = "text")

\* the order form is submitted again while the confirmation timer of an
\* earlier submission is pending
C33_Witness ==
  /\ ui.submit["order"].disabled
  /\ ui.submit["order"].label = "loading"
  /\ ui.confirming

-----------------------------------------------------------------------------
(* debounce: claim C34 *)

\* C34: a function wrapped by debounce without the immediate flag runs only
\* when the timer of the most recent call fires with no later call in
\* between: a burst of calls less than wait apart makes exactly one
\* invocation, with the args of its last call, and func is not invoked
\* while the timer of a newer call is pending.
C34_DebounceRunsLastCallOnce ==
  ~debounced.immediate =>
    /\ Len(debounced.invoked) <= 1
    /\ debounced.invoked # <<>> =>
         /\ debounced.timers = {}
         /\ debounced.invoked[1] = debounced.calls[Len(debounced.calls)]
    /\ debounced.calls # <<>> /\ debounced.timers = {} =>
         Len(debounced.invoked) = 1

\* a burst of three calls with different args has ended
C34_Witness ==
  /\ ~debounced.immediate
  /\ Len(debounced.calls) = MaxCalls
  /\ debounced.calls[1] # debounced.calls[MaxCalls]
  /\ debounced.invoked = <<debounced.calls[MaxCalls]>>
=============================================================================
